---------------------------- MODULE Spec2Model ----------------------------
(***************************************************************************)
(* State-machine model of the two components of ParallelLauncher:          *)
(*   - SignalHandler (includes/SignalHandler.hpp, src/SignalHandler.cpp)   *)
(*   - ThreadManager (includes/ThreadManager.hpp)                          *)
(*                                                                         *)
(* A 32-bit bitmask word is represented by the set of its set bit          *)
(* positions (a subset of 0..31): fetch_or is set union, fetch_and with a  *)
(* complemented mask is set difference, the conversion of a word to bool   *)
(* is "the set is not empty".                                              *)
(***************************************************************************)
EXTENDS Integers, Sequences, FiniteSets, TLC

\* ------------------------------------------------------------------------
\* Bounds of the model and platform constants
\* ------------------------------------------------------------------------

\* Longest construction list that is enumerated.
MaxListLen == 2

\* Number of thread identities the registry can hand out in one run.
MaxThreads == 3

\* glibc/Linux value of NSIG, the bound used by every range check.
NSIG == 65

\* Signal numbers that may appear in a construction list: an illegal low
\* one, SIGINT, SIGKILL, SIGRTMIN and an illegal high one.
ListSigs == {0, 2, 9, 34, NSIG}

\* Signal numbers the query operations are called with.
QuerySigs == {0, 2, 3, 34, NSIG}

\* Signals whose disposition the OS refuses to change (sigaction == -1).
Uncatchable == {9}

\* Signals a caller thread may already have blocked before a construction.
PreBlocked == {2}

\* Every signal number the pure mapping is evaluated on.
SigRange == (0 - 2) .. (NSIG + 2)

\* The signals whose disposition and delivery are tracked: SIGINT, SIGQUIT,
\* SIGKILL and SIGRTMIN.
LegalSigs == {2, 3, 9, 34}

Threads == {"t1", "t2"}

\* Threads calling the operations of the ThreadManager.
Callers == {"c1", "c2"}

\* Identities of the threads the ThreadManager starts.
Tids == 1..MaxThreads

Words == {"OS_sigs", "RT_sigs", "reserved"}

Lists == UNION {[1..n -> ListSigs] : n \in 1..MaxListLen}

\* Lists the second, contending thread constructs with.
ContenderLists == {<<2>>, <<0>>}

QueryLists == {<<2, 3, 34>>}

VARIABLES
  \* ---- SignalHandler: process-wide statics and OS state
  instance_exists_,   \* the atomic_flag
  sig_flags_,         \* [Words -> SUBSET 0..31]
  disposition,        \* OS disposition of every signal
  mask,               \* signal mask of every caller thread
  \* ---- SignalHandler: the object a thread is constructing / owns
  pc,                 \* position of each caller thread in ctor / dtor
  signal_list,        \* constructor argument
  throw_sig_error,    \* constructor argument
  sigmask_,           \* member: set of registered signals
  old_handlers_,      \* member: signal -> saved disposition ("none" = absent)
  idx,                \* position of the installation loop
  outcome,            \* the construction that ended in the last step
  \* ---- dispatcher thread of the object owned by a thread
  dpc,                \* position of the dispatcher
  dmask,              \* signal mask of the dispatcher thread
  dispatch_mtx_,      \* owner of the mutex: "free", "dtor" or "disp"
  stop_,              \* stop state of dispatch_thread_'s stop source
  woken,              \* a notify_one reached the waiting dispatcher
  \* ---- one thread calling the query operations
  qpc,                \* position inside pop_all_signals
  sigbitmask,         \* the SignalMask_t out-parameter
  last,               \* the query that returned in the last step
  \* ---- history
  mask0,              \* caller's mask when its construction started
  disp0,              \* dispositions when its construction started
  raised,             \* signals delivered since their bit was last cleared
  unreported,         \* signals delivered and not yet reported by a pop
  destroyed,          \* some instance has completed its teardown
  \* ---- ThreadManager
  thread_counter_,    \* the uint32 live-count, as its 32-bit pattern read
                      \* in two's complement (0xFFFFFFFF is -1)
  global_stop_source_,\* stop state of the global stop source
  threads_,           \* keys of the table
  local_stop,         \* stop state of the jthread of every identity
  threads_mtx_,       \* "free" or the caller that holds it
  wstate,             \* every identity: unborn, running, returned, exited
  cpc,                \* position of every caller
  ctid,               \* spawn_thread's local variable tid (0 = none)
  inside,             \* the worker whose body makes the caller's
                      \* spawn_thread call (0 = a thread outside the registry)
  orphans,            \* history: threads started by a spawn_thread that failed
  tmlast              \* the registry call that returned in the last step

shvars == <<instance_exists_, sig_flags_, disposition, mask, pc, signal_list,
            throw_sig_error, sigmask_, old_handlers_, idx, outcome, dpc, dmask,
            dispatch_mtx_, stop_, woken, qpc, sigbitmask, last, mask0, disp0,
            raised, unreported, destroyed>>

tmvars == <<thread_counter_, global_stop_source_, threads_, local_stop,
            threads_mtx_, wstate, cpc, ctid, inside, orphans, tmlast>>

vars == <<shvars, tmvars>>

\* ------------------------------------------------------------------------
\* signal_bitmask and the word selection
\* ------------------------------------------------------------------------

\* Mutant of signal_bitmask: the realtime branch shifts by signo - 31.
signal_bitmask_RtOffByOne(signo) ==
  IF signo <= 0 \/ signo >= NSIG THEN {}
  ELSE IF signo < 32 THEN {signo - 1}
  ELSE IF signo < 64 THEN {signo - 31}
  ELSE {signo - 64}

signal_bitmask(signo) ==
  IF signo <= 0 \/ signo >= NSIG THEN {}
  ELSE IF signo < 32 THEN {signo - 1}
  ELSE IF signo < 64 THEN {signo - 32}
  ELSE {signo - 64}

\* The word test_signal and pop_signal select (identical code in both).
flagenm(sig) ==
  IF sig >= 32 /\ sig < 64 THEN "RT_sigs"
  ELSE IF sig >= 64 THEN "reserved"
  ELSE "OS_sigs"

\* The word handler_callback selects.
handler_word(sig) ==
  IF sig < 32 THEN "OS_sigs"
  ELSE IF sig < 64 THEN "RT_sigs"
  ELSE "reserved"

handler_callback(flags, sig) ==
  [flags EXCEPT ![handler_word(sig)] = @ \cup signal_bitmask(sig)]

test_signal(flags, sig) ==
  IF sig <= 0 \/ sig >= NSIG THEN FALSE
  ELSE (flags[flagenm(sig)] \cap signal_bitmask(sig)) # {}

\* Return value of pop_signal: fetch_and returns the previous value of the
\* whole word, which the return statement converts to bool.
pop_signal_ret(flags, sig) ==
  IF sig <= 0 \/ sig >= NSIG THEN FALSE
  ELSE flags[flagenm(sig)] # {}

\* Mutant of pop_signal_flags: the whole word is cleared.
pop_signal_flags_WholeWord(flags, sig) ==
  IF sig <= 0 \/ sig >= NSIG THEN flags
  ELSE [flags EXCEPT ![flagenm(sig)] = {}]

\* The words after pop_signal.
pop_signal_flags(flags, sig) ==
  IF sig <= 0 \/ sig >= NSIG THEN flags
  ELSE [flags EXCEPT ![flagenm(sig)] = @ \ signal_bitmask(sig)]

ZeroFlags == [w \in Words |-> {}]

\* Mutant of IsLegal: the upper comparison is > instead of >=.
IsLegal_UpperOffByOne(signal) == ~(signal <= 0 \/ signal > NSIG)

IsLegal(signal) == ~(signal <= 0 \/ signal >= NSIG)

HasIllegal(list) == \E i \in 1..Len(list) : ~IsLegal(list[i])

\* History: the list names a number outside 1..NSIG-1.
OutOfRange(list) == \E i \in 1..Len(list) : list[i] < 1 \/ list[i] > NSIG - 1

ListSet(list) == {list[i] : i \in 1..Len(list)}

\* sigaction(signal, ...) == -1: the OS refuses SIGKILL.
SigactionFails(signal) == signal \in Uncatchable

NoHandlers == [s \in LegalSigs |-> "none"]

NoOutcome == [t |-> "none", err |-> "none", illegal |-> FALSE]

NoLast == [op |-> "none", sig |-> 0, ret |-> FALSE, was |-> FALSE,
           out |-> ZeroFlags]

\* ------------------------------------------------------------------------
\* Initial state
\* ------------------------------------------------------------------------

InitSH ==
  /\ instance_exists_ = FALSE
  /\ sig_flags_ = ZeroFlags
  /\ disposition = [s \in LegalSigs |-> "SIG_DFL"]
  /\ mask \in [Threads -> SUBSET PreBlocked]
  /\ pc = [t \in Threads |-> "idle"]
  /\ signal_list = [t \in Threads |-> <<>>]
  /\ throw_sig_error = [t \in Threads |-> TRUE]
  /\ sigmask_ = [t \in Threads |-> {}]
  /\ old_handlers_ = [t \in Threads |-> NoHandlers]
  /\ idx = [t \in Threads |-> 0]
  /\ outcome = NoOutcome
  /\ dpc = [t \in Threads |-> "none"]
  /\ dmask = [t \in Threads |-> {}]
  /\ dispatch_mtx_ = [t \in Threads |-> "free"]
  /\ stop_ = [t \in Threads |-> FALSE]
  /\ woken = [t \in Threads |-> FALSE]
  /\ qpc = "idle"
  /\ sigbitmask = ZeroFlags
  /\ last = NoLast
  /\ mask0 = [t \in Threads |-> {}]
  /\ disp0 = [t \in Threads |-> [s \in LegalSigs |-> "SIG_DFL"]]
  /\ raised = {}
  /\ unreported = {}
  /\ destroyed = FALSE

NoCall == [op |-> "none", c |-> "none", id |-> 0, ret |-> FALSE,
           err |-> "none"]

InitTM ==
  /\ thread_counter_ = 0
  /\ global_stop_source_ = FALSE
  /\ threads_ = {}
  /\ local_stop = [i \in Tids |-> FALSE]
  /\ threads_mtx_ = "free"
  /\ wstate = [i \in Tids |-> "unborn"]
  /\ cpc = [c \in Callers |-> "idle"]
  /\ ctid = [c \in Callers |-> 0]
  /\ inside = [c \in Callers |-> 0]
  /\ orphans = {}
  /\ tmlast = NoCall

Init == InitSH /\ InitTM

\* ------------------------------------------------------------------------
\* SignalHandler: construction
\* ------------------------------------------------------------------------

osvars    == <<disposition, mask>>
instvars  == <<signal_list, throw_sig_error, sigmask_, old_handlers_, idx>>
dispvars  == <<dpc, dmask, dispatch_mtx_, stop_, woken>>
queryvars == <<qpc, sigbitmask>>
sigvars   == <<sig_flags_, raised, unreported>>
prevars   == <<mask0, disp0>>

\* The step ends no construction and returns from no query.
Quiet == outcome' = NoOutcome /\ last' = NoLast

\* The members of the object of thread t are gone (a constructor that threw,
\* or the end of the destructor).
Discard(t) ==
  /\ signal_list' = [signal_list EXCEPT ![t] = <<>>]
  /\ throw_sig_error' = [throw_sig_error EXCEPT ![t] = TRUE]
  /\ sigmask_' = [sigmask_ EXCEPT ![t] = {}]
  /\ old_handlers_' = [old_handlers_ EXCEPT ![t] = NoHandlers]
  /\ idx' = [idx EXCEPT ![t] = 0]
  /\ mask0' = [mask0 EXCEPT ![t] = {}]
  /\ disp0' = [disp0 EXCEPT ![t] = [s \in LegalSigs |-> "SIG_DFL"]]

\* The constructor of thread t throws err.
Throw(t, err) ==
  /\ outcome' = [t |-> t, err |-> err, illegal |-> OutOfRange(signal_list[t])]
  /\ last' = NoLast
  /\ pc' = [pc EXCEPT ![t] = "idle"]
  /\ Discard(t)

\* restore_actions(): sigaction(signum, saved) for every entry of
\* old_handlers_, then pthread_sigmask(SIG_UNBLOCK, &sigmask_) on the caller.
restore_actions(t) ==
  [disposition |->
     [s \in LegalSigs |->
        IF old_handlers_[t][s] # "none" /\ ~SigactionFails(s)
        THEN old_handlers_[t][s]
        ELSE disposition[s]],
   mask |-> mask[t] \ sigmask_[t]]

\* Mutant of CtorTestAndSet: the flag is tested but not set.
CtorTestAndSet_TestOnly(t, list, strict) ==
  /\ pc[t] = "idle"
  /\ last' = NoLast
  /\ IF instance_exists_
     THEN /\ outcome' = [t |-> t, err |-> "logic_error",
                         illegal |-> OutOfRange(list)]
          /\ UNCHANGED <<pc, instvars, prevars>>
     ELSE /\ outcome' = NoOutcome
          /\ pc' = [pc EXCEPT ![t] = "validate"]
          /\ signal_list' = [signal_list EXCEPT ![t] = list]
          /\ throw_sig_error' = [throw_sig_error EXCEPT ![t] = strict]
          /\ mask0' = [mask0 EXCEPT ![t] = mask[t]]
          /\ disp0' = [disp0 EXCEPT ![t] = disposition]
          /\ UNCHANGED <<sigmask_, old_handlers_, idx>>
  /\ UNCHANGED <<tmvars, instance_exists_, osvars, dispvars, queryvars,
                 sigvars, destroyed>>

\* instance_exists_.test_and_set(); the loser throws std::logic_error.
CtorTestAndSet(t, list, strict) ==
  /\ pc[t] = "idle"
  /\ last' = NoLast
  /\ IF instance_exists_
     THEN /\ outcome' = [t |-> t, err |-> "logic_error",
                         illegal |-> OutOfRange(list)]
          /\ UNCHANGED <<instance_exists_, pc, instvars, prevars>>
     ELSE /\ instance_exists_' = TRUE
          /\ outcome' = NoOutcome
          /\ pc' = [pc EXCEPT ![t] = "validate"]
          /\ signal_list' = [signal_list EXCEPT ![t] = list]
          /\ throw_sig_error' = [throw_sig_error EXCEPT ![t] = strict]
          /\ mask0' = [mask0 EXCEPT ![t] = mask[t]]
          /\ disp0' = [disp0 EXCEPT ![t] = disposition]
          /\ UNCHANGED <<sigmask_, old_handlers_, idx>>
  /\ UNCHANGED <<tmvars, osvars, dispvars, queryvars, sigvars, destroyed>>

\* The validation loop, then sigemptyset and the sigaddset loop.
CtorValidate(t) ==
  /\ pc[t] = "validate"
  /\ IF HasIllegal(signal_list[t])
     THEN /\ instance_exists_' = FALSE
          /\ Throw(t, "invalid_argument")
     ELSE /\ sigmask_' = [sigmask_ EXCEPT ![t] = ListSet(signal_list[t])]
          /\ pc' = [pc EXCEPT ![t] = "block"]
          /\ Quiet
          /\ UNCHANGED <<instance_exists_, signal_list, throw_sig_error,
                         old_handlers_, idx, prevars>>
  /\ UNCHANGED <<tmvars, osvars, dispvars, queryvars, sigvars, destroyed>>

\* pthread_sigmask(SIG_BLOCK, &sigmask_): either outcome of the call.  The
\* call fails on its arguments alone (EFAULT on &sigmask_), so after a
\* failure the SIG_UNBLOCK call on the same set fails too: the mask stays.
\* A successful call silently leaves the signals that cannot be blocked.
CtorBlock(t) ==
  /\ pc[t] = "block"
  /\ \E errc \in BOOLEAN :
       IF errc
       THEN /\ mask' = mask
            /\ instance_exists_' = FALSE
            /\ Throw(t, "system_error")
       ELSE /\ mask' = [mask EXCEPT ![t] = @ \cup (sigmask_[t] \ Uncatchable)]
            /\ idx' = [idx EXCEPT ![t] = 1]
            /\ pc' = [pc EXCEPT ![t] = "install"]
            /\ Quiet
            /\ UNCHANGED <<instance_exists_, signal_list, throw_sig_error,
                           sigmask_, old_handlers_, prevars>>
  /\ UNCHANGED <<tmvars, disposition, dispvars, queryvars, sigvars, destroyed>>

\* One iteration of the installation loop.
CtorInstall(t) ==
  /\ pc[t] = "install"
  /\ LET signal == signal_list[t][idx[t]]
         failed == SigactionFails(signal)
     IN IF failed /\ throw_sig_error[t]
        THEN /\ disposition' = restore_actions(t).disposition
             /\ mask' = [mask EXCEPT ![t] = restore_actions(t).mask]
             /\ instance_exists_' = FALSE
             /\ Throw(t, "system_error")
        ELSE /\ disposition' =
                  IF failed THEN disposition
                  ELSE [disposition EXCEPT ![signal] = "handler_callback"]
             \* old_sa_struct is uninitialized when sigaction failed
             /\ old_handlers_' = [old_handlers_ EXCEPT ![t][signal] =
                  IF failed THEN "uninit" ELSE disposition[signal]]
             /\ idx' = [idx EXCEPT ![t] = @ + 1]
             /\ pc' = [pc EXCEPT ![t] =
                  IF idx[t] = Len(signal_list[t]) THEN "zero" ELSE "install"]
             /\ Quiet
             /\ UNCHANGED <<instance_exists_, mask, signal_list,
                            throw_sig_error, sigmask_, prevars>>
  /\ UNCHANGED <<tmvars, dispvars, queryvars, sigvars, destroyed>>

\* Mutant of CtorZero: the constructor does not store 0 into the words.
CtorZero_NoStore(t) ==
  /\ pc[t] = "zero"
  /\ raised' = {}
  /\ unreported' = {}
  /\ pc' = [pc EXCEPT ![t] = "start"]
  /\ Quiet
  /\ UNCHANGED <<tmvars, instance_exists_, osvars, instvars, dispvars,
                 queryvars, prevars, destroyed, sig_flags_>>

\* The three stores of 0 that end the installation part of the constructor.
CtorZero(t) ==
  /\ pc[t] = "zero"
  /\ sig_flags_' = ZeroFlags
  /\ raised' = {}
  /\ unreported' = {}
  /\ pc' = [pc EXCEPT ![t] = "start"]
  /\ Quiet
  /\ UNCHANGED <<tmvars, instance_exists_, osvars, instvars, dispvars, queryvars,
                 prevars, destroyed>>

\* dispatch_thread_ = std::jthread(dispatcher, ...): the new thread inherits
\* the mask of its creator; the constructor returns.
CtorStartDispatcher(t) ==
  /\ pc[t] = "start"
  /\ dpc' = [dpc EXCEPT ![t] = "unblock"]
  /\ dmask' = [dmask EXCEPT ![t] = mask[t]]
  /\ stop_' = [stop_ EXCEPT ![t] = FALSE]
  /\ woken' = [woken EXCEPT ![t] = FALSE]
  /\ outcome' = [t |-> t, err |-> "ok", illegal |-> FALSE]
  /\ last' = NoLast
  /\ pc' = [pc EXCEPT ![t] = "live"]
  /\ UNCHANGED <<tmvars, instance_exists_, osvars, instvars, dispatch_mtx_,
                 queryvars, sigvars, prevars, destroyed>>

\* ------------------------------------------------------------------------
\* SignalHandler: the dispatcher thread
\* ------------------------------------------------------------------------

\* Mutant of DispUnblock: the dispatcher leaves its mask as inherited.
DispUnblock_Inherited(t) ==
  /\ dpc[t] = "unblock"
  /\ dpc' = [dpc EXCEPT ![t] = "lock"]
  /\ Quiet
  /\ UNCHANGED <<tmvars, instance_exists_, osvars, pc, instvars, dispatch_mtx_,
                 stop_, woken, queryvars, sigvars, prevars, destroyed, dmask>>

\* pthread_sigmask(SIG_UNBLOCK, sigmask_ptr, nullptr)
DispUnblock(t) ==
  /\ dpc[t] = "unblock"
  /\ dmask' = [dmask EXCEPT ![t] = @ \ sigmask_[t]]
  /\ dpc' = [dpc EXCEPT ![t] = "lock"]
  /\ Quiet
  /\ UNCHANGED <<tmvars, instance_exists_, osvars, pc, instvars, dispatch_mtx_,
                 stop_, woken, queryvars, sigvars, prevars, destroyed>>

\* std::unique_lock lock(dispatch_mtx_)
DispLock(t) ==
  /\ dpc[t] = "lock"
  /\ dispatch_mtx_[t] = "free"
  /\ dispatch_mtx_' = [dispatch_mtx_ EXCEPT ![t] = "disp"]
  /\ dpc' = [dpc EXCEPT ![t] = "check"]
  /\ Quiet
  /\ UNCHANGED <<tmvars, instance_exists_, osvars, pc, instvars, dmask, stop_,
                 woken, queryvars, sigvars, prevars, destroyed>>

\* cv.wait(lock, pred): the predicate is evaluated with the mutex held; if
\* it is false the mutex is released and the thread sleeps, otherwise the
\* lambda returns (the lock is released) and the thread ends.
DispCheck(t) ==
  /\ dpc[t] = "check"
  /\ dispatch_mtx_' = [dispatch_mtx_ EXCEPT ![t] = "free"]
  /\ dpc' = [dpc EXCEPT ![t] = IF stop_[t] THEN "done" ELSE "wait"]
  /\ woken' = [woken EXCEPT ![t] = FALSE]
  /\ Quiet
  /\ UNCHANGED <<tmvars, instance_exists_, osvars, pc, instvars, dmask, stop_,
                 queryvars, sigvars, prevars, destroyed>>

\* A notified waiter re-acquires the mutex and evaluates the predicate again.
DispWake(t) ==
  /\ dpc[t] = "wait"
  /\ woken[t]
  /\ dispatch_mtx_[t] = "free"
  /\ dispatch_mtx_' = [dispatch_mtx_ EXCEPT ![t] = "disp"]
  /\ dpc' = [dpc EXCEPT ![t] = "check"]
  /\ Quiet
  /\ UNCHANGED <<tmvars, instance_exists_, osvars, pc, instvars, dmask, stop_,
                 woken, queryvars, sigvars, prevars, destroyed>>

\* ------------------------------------------------------------------------
\* SignalHandler: the destructor
\* ------------------------------------------------------------------------

\* restore_actions(); no member function is running on the object.
DtorRestore(t) ==
  /\ pc[t] = "live"
  /\ qpc = "idle"
  /\ disposition' = restore_actions(t).disposition
  /\ mask' = [mask EXCEPT ![t] = restore_actions(t).mask]
  /\ pc' = [pc EXCEPT ![t] = "request_stop"]
  /\ Quiet
  /\ UNCHANGED <<tmvars, instance_exists_, instvars, dispvars, queryvars, sigvars,
                 prevars, destroyed>>

\* { lock_guard lock(dispatch_mtx_); dispatch_thread_.request_stop(); }
DtorRequestStop(t) ==
  /\ pc[t] = "request_stop"
  /\ dispatch_mtx_[t] = "free"
  /\ stop_' = [stop_ EXCEPT ![t] = TRUE]
  /\ pc' = [pc EXCEPT ![t] = "notify"]
  /\ Quiet
  /\ UNCHANGED <<tmvars, instance_exists_, osvars, instvars, dpc, dmask,
                 dispatch_mtx_, woken, queryvars, sigvars, prevars,
                 destroyed>>

\* Mutant of DtorNotify: the destructor does not notify.
DtorNotify_Nothing(t) ==
  /\ pc[t] = "notify"
  /\ pc' = [pc EXCEPT ![t] = "join"]
  /\ Quiet
  /\ UNCHANGED <<tmvars, instance_exists_, osvars, instvars, dpc, dmask,
                 dispatch_mtx_, stop_, queryvars, sigvars, prevars,
                 destroyed, woken>>

\* dispatch_cv_.notify_one()
DtorNotify(t) ==
  /\ pc[t] = "notify"
  /\ woken' = [woken EXCEPT ![t] = (dpc[t] = "wait")]
  /\ pc' = [pc EXCEPT ![t] = "join"]
  /\ Quiet
  /\ UNCHANGED <<tmvars, instance_exists_, osvars, instvars, dpc, dmask,
                 dispatch_mtx_, stop_, queryvars, sigvars, prevars,
                 destroyed>>

\* dispatch_thread_.join()
DtorJoin(t) ==
  /\ pc[t] = "join"
  /\ dpc[t] = "done"
  /\ dpc' = [dpc EXCEPT ![t] = "none"]
  /\ dmask' = [dmask EXCEPT ![t] = {}]
  /\ pc' = [pc EXCEPT ![t] = "dtor_zero"]
  /\ Quiet
  /\ UNCHANGED <<tmvars, instance_exists_, osvars, instvars, dispatch_mtx_, stop_,
                 woken, queryvars, sigvars, prevars, destroyed>>

\* The three stores of 0 of the destructor.
DtorZero(t) ==
  /\ pc[t] = "dtor_zero"
  /\ sig_flags_' = ZeroFlags
  /\ raised' = {}
  /\ unreported' = {}
  /\ pc' = [pc EXCEPT ![t] = "clear"]
  /\ Quiet
  /\ UNCHANGED <<tmvars, instance_exists_, osvars, instvars, dispvars, queryvars,
                 prevars, destroyed>>

\* instance_exists_.clear(); the members are destroyed.
DtorClear(t) ==
  /\ pc[t] = "clear"
  /\ instance_exists_' = FALSE
  /\ pc' = [pc EXCEPT ![t] = "idle"]
  /\ Discard(t)
  /\ stop_' = [stop_ EXCEPT ![t] = FALSE]
  /\ woken' = [woken EXCEPT ![t] = FALSE]
  /\ destroyed' = TRUE
  /\ Quiet
  /\ UNCHANGED <<tmvars, osvars, dpc, dmask, dispatch_mtx_, queryvars, sigvars>>

\* ------------------------------------------------------------------------
\* SignalHandler: signal delivery
\* ------------------------------------------------------------------------

\* Some thread of the process has signal s unblocked.
Unblocked(s) ==
  \/ \E t \in Threads : s \notin mask[t]
  \/ \E t \in Threads : dpc[t] \in {"unblock", "lock", "check", "wait"}
                        /\ s \notin dmask[t]

\* The threads on which the OS can run the handler of s: the caller threads
\* and the running dispatchers that have s unblocked.
RunsOn(s) ==
  {<<"caller", t>> : t \in {u \in Threads : s \notin mask[u]}}
  \cup {<<"dispatcher", t>> :
          t \in {u \in Threads :
                   /\ dpc[u] \in {"unblock", "lock", "check", "wait"}
                   /\ s \notin dmask[u]}}

\* The OS runs handler_callback(s) on a thread that has s unblocked.
Deliver(s) ==
  /\ disposition[s] = "handler_callback"
  /\ Unblocked(s)
  /\ sig_flags_' = handler_callback(sig_flags_, s)
  /\ raised' = raised \cup {s}
  /\ unreported' = unreported \cup {s}
  /\ Quiet
  /\ UNCHANGED <<tmvars, instance_exists_, osvars, pc, instvars, dispvars,
                 queryvars, prevars, destroyed>>

\* Scheduling: a thread that can take its next step takes it, and the OS
\* delivers a signal that some thread has unblocked.
FairLife ==
  /\ \A t \in Threads :
       /\ WF_vars(DispUnblock(t)) /\ WF_vars(DispLock(t))
       /\ WF_vars(DispCheck(t)) /\ WF_vars(DispWake(t))
       /\ WF_vars(DtorRequestStop(t)) /\ WF_vars(DtorNotify(t))
       /\ WF_vars(DtorJoin(t)) /\ WF_vars(DtorZero(t))
       /\ WF_vars(DtorClear(t))
  /\ \A s \in LegalSigs : WF_vars(Deliver(s))

\* ------------------------------------------------------------------------
\* SignalHandler: the query operations, called on the live object
\* ------------------------------------------------------------------------

Live == \E t \in Threads : pc[t] = "live"

TestSignal(sig) ==
  /\ Live
  /\ qpc = "idle"
  /\ last' = [op |-> "test_signal", sig |-> sig,
              ret |-> test_signal(sig_flags_, sig), was |-> sig \in raised,
              out |-> ZeroFlags]
  /\ outcome' = NoOutcome
  /\ UNCHANGED <<tmvars, instance_exists_, osvars, pc, instvars, dispvars,
                 queryvars, sigvars, prevars, destroyed>>

PopSignal(sig) ==
  /\ Live
  /\ qpc = "idle"
  /\ last' = [op |-> "pop_signal", sig |-> sig,
              ret |-> pop_signal_ret(sig_flags_, sig), was |-> sig \in raised,
              out |-> ZeroFlags]
  /\ sig_flags_' = pop_signal_flags(sig_flags_, sig)
  /\ raised' = raised \ {sig}
  /\ unreported' = unreported \ {sig}
  /\ outcome' = NoOutcome
  /\ UNCHANGED <<tmvars, instance_exists_, osvars, pc, instvars, dispvars,
                 queryvars, prevars, destroyed>>

\* The words of the snapshot are loaded one after the other.
NextWord(w) ==
  IF w = "OS_sigs" THEN "RT_sigs" ELSE IF w = "RT_sigs" THEN "reserved"
  ELSE "end"

AnySet(m) == \E w \in Words : m[w] # {}

\* Signals whose bit is in the snapshot m.
Reported(m) ==
  {s \in LegalSigs : signal_bitmask(s) \subseteq m[handler_word(s)]}

\* bool test_all_signals(SignalMask_t&), called directly (op = "test_all")
\* or as the first statement of pop_all_signals (op = "pop_all").
AllBegin(op) ==
  /\ Live
  /\ qpc = "idle"
  /\ qpc' = <<op, "load", "OS_sigs">>
  /\ Quiet
  /\ UNCHANGED <<tmvars, instance_exists_, osvars, pc, instvars, dispvars,
                 sigbitmask, sigvars, prevars, destroyed>>

\* The three loads of test_all_signals, then its return.
AllLoad ==
  /\ qpc # "idle"
  /\ qpc[2] = "load"
  /\ outcome' = NoOutcome
  /\ LET w == qpc[3]
         m == [sigbitmask EXCEPT ![w] = sig_flags_[w]]
     IN IF NextWord(w) # "end"
        THEN /\ qpc' = <<qpc[1], "load", NextWord(w)>>
             /\ sigbitmask' = m
             /\ last' = NoLast
        ELSE IF qpc[1] = "test_all"
        THEN /\ qpc' = "idle"
             /\ sigbitmask' = ZeroFlags
             /\ last' = [op |-> "test_all", sig |-> 0, ret |-> AnySet(m),
                         was |-> raised # {}, out |-> m]
        ELSE /\ qpc' = <<"pop_all", "store", "OS_sigs">>
             /\ sigbitmask' = m
             /\ last' = NoLast
  /\ UNCHANGED <<tmvars, instance_exists_, osvars, pc, instvars, dispvars,
                 sigvars, prevars, destroyed>>

\* The three stores of 0 of pop_all_signals, then its return.
PopAllStore ==
  /\ qpc # "idle"
  /\ qpc[2] = "store"
  /\ outcome' = NoOutcome
  /\ LET w == qpc[3]
     IN /\ sig_flags_' = [sig_flags_ EXCEPT ![w] = {}]
        /\ raised' = {s \in raised : handler_word(s) # w}
        /\ IF NextWord(w) # "end"
           THEN /\ qpc' = <<"pop_all", "store", NextWord(w)>>
                /\ last' = NoLast
                /\ UNCHANGED <<sigbitmask, unreported>>
           ELSE /\ qpc' = "idle"
                /\ sigbitmask' = ZeroFlags
                /\ last' = [op |-> "pop_all", sig |-> 0,
                            ret |-> AnySet(sigbitmask), was |-> FALSE,
                            out |-> sigbitmask]
                /\ unreported' = unreported \ Reported(sigbitmask)
  /\ UNCHANGED <<tmvars, instance_exists_, osvars, pc, instvars, dispvars, prevars,
                 destroyed>>

\* ------------------------------------------------------------------------
\* Specifications of the SignalHandler
\* ------------------------------------------------------------------------

\* Construction and teardown: thread t1 over every list, thread t2
\* contending with a legal and an illegal list.
NextLife ==
  \/ \E list \in Lists, strict \in BOOLEAN : CtorTestAndSet("t1", list, strict)
  \/ \E list \in ContenderLists : CtorTestAndSet("t2", list, TRUE)
  \/ \E t \in Threads : CtorValidate(t)
  \/ \E t \in Threads : CtorBlock(t)
  \/ \E t \in Threads : CtorInstall(t)
  \/ \E t \in Threads : CtorZero(t)
  \/ \E t \in Threads : CtorStartDispatcher(t)
  \/ \E t \in Threads : DispUnblock(t)
  \/ \E t \in Threads : DispLock(t)
  \/ \E t \in Threads : DispCheck(t)
  \/ \E t \in Threads : DispWake(t)
  \/ \E t \in Threads : DtorRestore(t)
  \/ \E t \in Threads : DtorRequestStop(t)
  \/ \E t \in Threads : DtorNotify(t)
  \/ \E t \in Threads : DtorJoin(t)
  \/ \E t \in Threads : DtorZero(t)
  \/ \E t \in Threads : DtorClear(t)
  \/ \E s \in LegalSigs : Deliver(s)

SpecLife == Init /\ [][NextLife]_vars

\* One thread constructs over three registered signals; the queries run.
SpecLifeFair == Init /\ [][NextLife]_vars /\ FairLife

InitQuery == Init /\ mask = [t \in Threads |-> {}]

NextQuery ==
  \/ \E list \in QueryLists : CtorTestAndSet("t1", list, TRUE)
  \/ CtorValidate("t1")
  \/ CtorBlock("t1")
  \/ CtorInstall("t1")
  \/ CtorZero("t1")
  \/ CtorStartDispatcher("t1")
  \/ DispUnblock("t1")
  \/ DispLock("t1")
  \/ DispCheck("t1")
  \/ DispWake("t1")
  \/ DtorRestore("t1")
  \/ DtorRequestStop("t1")
  \/ DtorNotify("t1")
  \/ DtorJoin("t1")
  \/ DtorZero("t1")
  \/ DtorClear("t1")
  \/ \E s \in LegalSigs : Deliver(s)
  \/ \E sig \in QuerySigs : TestSignal(sig)
  \/ \E sig \in QuerySigs : PopSignal(sig)
  \/ \E op \in {"test_all", "pop_all"} : AllBegin(op)
  \/ AllLoad
  \/ PopAllStore

SpecQuery == InitQuery /\ [][NextQuery]_vars

\* ------------------------------------------------------------------------
\* ThreadManager
\* ------------------------------------------------------------------------

\* uint32 arithmetic on the two's complement reading of the pattern.
FetchAdd1(x) == x + 1
FetchSub1(x) == x - 1

\* x >= n and x > 0 as the unsigned comparison the code makes (n is a size).
UGeq(x, n) == x < 0 \/ x >= n
UPositive(x) == x # 0
\* x <= n and x = n for the unsigned value of x.
ULeq(x, n) == x >= 0 /\ x <= n
UEq(x, n) == x = n

total_threads == Cardinality(threads_)

all_running == UGeq(thread_counter_, total_threads) /\ total_threads # 0

any_running == UPositive(thread_counter_)

stop_requested_all == global_stop_source_

\* global_stop_source_.get_token() as the wrapper of thread i hands it to
\* the work body: the token shares the stop state of the source.
global_token(i) == global_stop_source_

Unborn == {i \in Tids : wstate[i] = "unborn"}

\* The identity the next started thread gets.
FreshTid == CHOOSE i \in Unborn : \A j \in Unborn : i <= j

\* The threads whose work body is running: a body may call spawn_thread.
Bodies == {i \in Tids : wstate[i] = "running"}

\* spawn_thread: thread_counter_.fetch_add(1).  The call is made by a thread
\* outside the registry or by the work body of a running thread.
SpawnIncr(c) ==
  /\ cpc[c] = "idle"
  /\ \E w \in Bodies \cup {0} :
       /\ \A d \in Callers : w # 0 => inside[d] # w
       /\ inside' = [inside EXCEPT ![c] = w]
  /\ thread_counter_' = FetchAdd1(thread_counter_)
  /\ cpc' = [cpc EXCEPT ![c] = "s_lock"]
  /\ tmlast' = NoCall
  /\ UNCHANGED <<shvars, orphans, global_stop_source_, threads_, local_stop,
                 threads_mtx_, wstate, ctid>>

\* spawn_thread: std::lock_guard lock(threads_mtx_)
SpawnLock(c) ==
  /\ cpc[c] = "s_lock"
  /\ threads_mtx_ = "free"
  /\ threads_mtx_' = c
  /\ cpc' = [cpc EXCEPT ![c] = "s_create"]
  /\ tmlast' = NoCall
  /\ UNCHANGED <<shvars, orphans, inside, thread_counter_, global_stop_source_, threads_,
                 local_stop, wstate, ctid>>

\* spawn_thread: std::jthread thread(...) starts the worker or throws;
\* tid = thread.get_id().
SpawnCreate(c) ==
  /\ cpc[c] = "s_create"
  /\ tmlast' = NoCall
  /\ \E started \in BOOLEAN :
       IF started /\ Unborn # {}
       THEN /\ wstate' = [wstate EXCEPT ![FreshTid] = "running"]
            /\ ctid' = [ctid EXCEPT ![c] = FreshTid]
            /\ cpc' = [cpc EXCEPT ![c] = "s_insert"]
       ELSE /\ cpc' = [cpc EXCEPT ![c] = "s_catch"]
            /\ UNCHANGED <<wstate, ctid>>
  /\ UNCHANGED <<shvars, orphans, inside, thread_counter_, global_stop_source_, threads_,
                 local_stop, threads_mtx_>>

\* spawn_thread: threads_[tid] = std::move(thread); return tid.  If the
\* insertion throws, the local jthread is destroyed during unwinding: its
\* destructor requests the local stop and joins the worker.
SpawnInsert(c) ==
  /\ cpc[c] = "s_insert"
  /\ \E inserted \in BOOLEAN :
       IF inserted
       THEN /\ threads_' = threads_ \cup {ctid[c]}
            /\ threads_mtx_' = "free"
            /\ cpc' = [cpc EXCEPT ![c] = "idle"]
            /\ ctid' = [ctid EXCEPT ![c] = 0]
            /\ inside' = [inside EXCEPT ![c] = 0]
            /\ tmlast' = [op |-> "spawn_thread", c |-> c, id |-> ctid[c],
                          ret |-> TRUE, err |-> "none"]
            /\ UNCHANGED <<local_stop, orphans>>
       ELSE /\ local_stop' = [local_stop EXCEPT ![ctid[c]] = TRUE]
            /\ orphans' = orphans \cup {ctid[c]}
            /\ cpc' = [cpc EXCEPT ![c] = "s_unwind"]
            /\ tmlast' = NoCall
            /\ UNCHANGED <<threads_, threads_mtx_, ctid, inside>>
  /\ UNCHANGED <<shvars, thread_counter_, global_stop_source_, wstate>>

\* The join of the jthread destructor during unwinding.
SpawnUnwind(c) ==
  /\ cpc[c] = "s_unwind"
  /\ wstate[ctid[c]] = "exited"
  /\ cpc' = [cpc EXCEPT ![c] = "s_catch"]
  /\ tmlast' = NoCall
  /\ UNCHANGED <<shvars, orphans, inside, thread_counter_, global_stop_source_, threads_,
                 local_stop, threads_mtx_, wstate, ctid>>

\* spawn_thread: catch (...) { thread_counter_.fetch_sub(1); throw; }
SpawnCatch(c) ==
  /\ cpc[c] = "s_catch"
  /\ thread_counter_' = FetchSub1(thread_counter_)
  /\ threads_mtx_' = "free"
  /\ cpc' = [cpc EXCEPT ![c] = "idle"]
  /\ ctid' = [ctid EXCEPT ![c] = 0]
  /\ inside' = [inside EXCEPT ![c] = 0]
  /\ tmlast' = [op |-> "spawn_thread", c |-> c, id |-> ctid[c],
                ret |-> FALSE, err |-> "rethrown"]
  /\ UNCHANGED <<shvars, orphans, global_stop_source_, threads_, local_stop, wstate>>

\* The work body of thread i returns; not while it is inside a call.
WorkerReturn(i) ==
  /\ wstate[i] = "running"
  /\ \A c \in Callers : inside[c] # i
  /\ wstate' = [wstate EXCEPT ![i] = "returned"]
  /\ tmlast' = NoCall
  /\ UNCHANGED <<shvars, orphans, inside, thread_counter_, global_stop_source_, threads_,
                 local_stop, threads_mtx_, cpc, ctid>>

\* Mutant of WorkerExit: the wrapper ends without its fetch_sub.
WorkerExit_NoSub(i) ==
  /\ wstate[i] = "returned"
  /\ wstate' = [wstate EXCEPT ![i] = "exited"]
  /\ tmlast' = NoCall
  /\ UNCHANGED <<shvars, orphans, inside, thread_counter_,
                 global_stop_source_, threads_, local_stop, threads_mtx_,
                 cpc, ctid>>

\* The wrapper's thread_counter_.fetch_sub(1); the thread ends.
WorkerExit(i) ==
  /\ wstate[i] = "returned"
  /\ thread_counter_' = FetchSub1(thread_counter_)
  /\ wstate' = [wstate EXCEPT ![i] = "exited"]
  /\ tmlast' = NoCall
  /\ UNCHANGED <<shvars, orphans, inside, global_stop_source_, threads_, local_stop,
                 threads_mtx_, cpc, ctid>>

\* Mutant of JoinLock: join() starts to drain without taking the lock.
JoinLock_NoLock(c) ==
  /\ cpc[c] = "idle"
  /\ cpc' = [cpc EXCEPT ![c] = "j_wait"]
  /\ tmlast' = NoCall
  /\ UNCHANGED <<shvars, orphans, inside, thread_counter_,
                 global_stop_source_, threads_, local_stop, threads_mtx_,
                 wstate, ctid>>

\* join: std::lock_guard lock(threads_mtx_)
JoinLock(c) ==
  /\ cpc[c] = "idle"
  /\ threads_mtx_ = "free"
  /\ threads_mtx_' = c
  /\ cpc' = [cpc EXCEPT ![c] = "j_wait"]
  /\ tmlast' = NoCall
  /\ UNCHANGED <<shvars, orphans, inside, thread_counter_, global_stop_source_, threads_,
                 local_stop, wstate, ctid>>

\* Mutant of JoinDrain: the table is cleared without waiting for the threads.
JoinDrain_NoWait(c) ==
  /\ cpc[c] = "j_wait"
  /\ threads_' = {}
  /\ threads_mtx_' = "free"
  /\ cpc' = [cpc EXCEPT ![c] = "idle"]
  /\ tmlast' = [op |-> "join", c |-> c, id |-> 0, ret |-> TRUE,
                err |-> "none"]
  /\ UNCHANGED <<shvars, orphans, inside, thread_counter_,
                 global_stop_source_, local_stop, wstate, ctid>>

\* join: the loop of thread.join() ends once every registered thread has
\* ended; threads_.clear(); the lock is released.
JoinDrain(c) ==
  /\ cpc[c] = "j_wait"
  /\ \A i \in threads_ : wstate[i] = "exited"
  /\ threads_' = {}
  /\ threads_mtx_' = "free"
  /\ cpc' = [cpc EXCEPT ![c] = "idle"]
  /\ tmlast' = [op |-> "join", c |-> c, id |-> 0, ret |-> TRUE,
                err |-> "none"]
  /\ UNCHANGED <<shvars, orphans, inside, thread_counter_, global_stop_source_, local_stop,
                 wstate, ctid>>

\* Mutant of RequestStop: the request is also made on the global source.
RequestStop_AlsoGlobal(c, i) ==
  /\ cpc[c] = "idle"
  /\ threads_mtx_ = "free"
  /\ IF i \notin threads_
     THEN /\ tmlast' = [op |-> "request_stop", c |-> c, id |-> i,
                        ret |-> FALSE, err |-> "invalid_argument"]
          /\ UNCHANGED <<local_stop, global_stop_source_>>
     ELSE /\ tmlast' = [op |-> "request_stop", c |-> c, id |-> i,
                        ret |-> ~local_stop[i], err |-> "none"]
          /\ local_stop' = [local_stop EXCEPT ![i] = TRUE]
          /\ global_stop_source_' = TRUE
  /\ UNCHANGED <<shvars, orphans, inside, thread_counter_, threads_,
                 threads_mtx_, wstate, cpc, ctid>>

\* bool request_stop(tid): under the lock, lookup then threads_[tid]
\* .request_stop(), which returns whether this call made the request.
RequestStop(c, i) ==
  /\ cpc[c] = "idle"
  /\ threads_mtx_ = "free"
  /\ IF i \notin threads_
     THEN /\ tmlast' = [op |-> "request_stop", c |-> c, id |-> i,
                        ret |-> FALSE, err |-> "invalid_argument"]
          /\ UNCHANGED local_stop
     ELSE /\ tmlast' = [op |-> "request_stop", c |-> c, id |-> i,
                        ret |-> ~local_stop[i], err |-> "none"]
          /\ local_stop' = [local_stop EXCEPT ![i] = TRUE]
  /\ UNCHANGED <<shvars, orphans, inside, thread_counter_, global_stop_source_, threads_,
                 threads_mtx_, wstate, cpc, ctid>>

\* Mutant of StopRequested: the flag is read without the membership check.
StopRequested_NoLookup(c, i) ==
  /\ cpc[c] = "idle"
  /\ threads_mtx_ = "free"
  /\ tmlast' = [op |-> "stop_requested", c |-> c, id |-> i,
                ret |-> local_stop[i], err |-> "none"]
  /\ UNCHANGED <<shvars, orphans, inside, thread_counter_,
                 global_stop_source_, threads_, local_stop, threads_mtx_,
                 wstate, cpc, ctid>>

\* bool stop_requested(tid)
StopRequested(c, i) ==
  /\ cpc[c] = "idle"
  /\ threads_mtx_ = "free"
  /\ tmlast' = IF i \notin threads_
               THEN [op |-> "stop_requested", c |-> c, id |-> i,
                     ret |-> FALSE, err |-> "invalid_argument"]
               ELSE [op |-> "stop_requested", c |-> c, id |-> i,
                     ret |-> local_stop[i], err |-> "none"]
  /\ UNCHANGED <<shvars, orphans, inside, thread_counter_, global_stop_source_, threads_,
                 local_stop, threads_mtx_, wstate, cpc, ctid>>

\* Mutant of RequestStopAll: the call always reports a new request.
RequestStopAll_AlwaysTrue(c) ==
  /\ cpc[c] = "idle"
  /\ tmlast' = [op |-> "request_stop_all", c |-> c, id |-> 0,
                ret |-> TRUE, err |-> "none"]
  /\ global_stop_source_' = TRUE
  /\ UNCHANGED <<shvars, orphans, inside, thread_counter_, threads_,
                 local_stop, threads_mtx_, wstate, cpc, ctid>>

\* bool request_stop_all()
RequestStopAll(c) ==
  /\ cpc[c] = "idle"
  /\ tmlast' = [op |-> "request_stop_all", c |-> c, id |-> 0,
                ret |-> ~global_stop_source_, err |-> "none"]
  /\ global_stop_source_' = TRUE
  /\ UNCHANGED <<shvars, orphans, inside, thread_counter_, threads_, local_stop,
                 threads_mtx_, wstate, cpc, ctid>>

NextTM ==
  \/ \E c \in Callers : SpawnIncr(c)
  \/ \E c \in Callers : SpawnLock(c)
  \/ \E c \in Callers : SpawnCreate(c)
  \/ \E c \in Callers : SpawnInsert(c)
  \/ \E c \in Callers : SpawnUnwind(c)
  \/ \E c \in Callers : SpawnCatch(c)
  \/ \E i \in Tids : WorkerReturn(i)
  \/ \E i \in Tids : WorkerExit(i)
  \/ \E c \in Callers : JoinLock(c)
  \/ \E c \in Callers : JoinDrain(c)
  \/ \E c \in Callers, i \in Tids : RequestStop(c, i)
  \/ \E c \in Callers, i \in Tids : StopRequested(c, i)
  \/ \E c \in Callers : RequestStopAll(c)

InitReg == Init /\ mask = [t \in Threads |-> {}]

SpecTM == InitReg /\ [][NextTM]_vars

\* The registry with cooperative workers: a work body returns as soon as
\* its local or its global token reports a stop request and calls no
\* registry operation; the operations are called by threads outside the
\* registry, and no spawn_thread call overlaps a join().
WorkerStops(i) ==
  /\ local_stop[i] \/ global_token(i)
  /\ WorkerReturn(i)

NextStop ==
  \/ \E c \in Callers :
       /\ \A d \in Callers : cpc[d] # "j_wait"
       /\ SpawnIncr(c)
       /\ inside'[c] = 0
  \/ \E c \in Callers : SpawnLock(c)
  \/ \E c \in Callers : SpawnCreate(c)
  \/ \E c \in Callers : SpawnInsert(c)
  \/ \E c \in Callers : SpawnUnwind(c)
  \/ \E c \in Callers : SpawnCatch(c)
  \/ \E i \in Tids : WorkerStops(i)
  \/ \E i \in Tids : WorkerExit(i)
  \/ \E c \in Callers :
       /\ \A d \in Callers : cpc[d] = "idle"
       /\ JoinLock(c)
  \/ \E c \in Callers : JoinDrain(c)
  \/ \E c \in Callers, i \in Tids : RequestStop(c, i)
  \/ \E c \in Callers, i \in Tids : StopRequested(c, i)
  \/ \E c \in Callers : RequestStopAll(c)

\* Scheduling: a thread that can take its next step takes it; a caller
\* that has a request_stop(id) to make makes it when the lock is free.
\* No caller is bound to call request_stop_all().
FairStop ==
  /\ \A i \in Tids : WF_vars(WorkerStops(i)) /\ WF_vars(WorkerExit(i))
  /\ \A c \in Callers :
       /\ WF_vars(JoinDrain(c))
       /\ WF_vars(SpawnCreate(c)) /\ WF_vars(SpawnInsert(c))
       /\ WF_vars(SpawnUnwind(c)) /\ WF_vars(SpawnCatch(c))
       /\ SF_vars(SpawnLock(c))
       /\ \A i \in Tids : SF_vars(RequestStop(c, i))

SpecStop == InitReg /\ [][NextStop]_vars /\ FairStop

\* ------------------------------------------------------------------------
\* Properties
\* ------------------------------------------------------------------------

\* The placement the specification gives a legal signal number.
ExpWord(k) ==
  IF k < 32 THEN "OS_sigs" ELSE IF k < 64 THEN "RT_sigs" ELSE "reserved"

ExpBit(k) == IF k < 32 THEN k - 1 ELSE IF k < 64 THEN k - 32 ELSE k - 64

Legal(k) == k >= 1 /\ k <= NSIG - 1

\* C1: pop_signal(n) returns true exactly when a delivery of n has set n's
\* bit since that bit was last cleared, whatever other bits are set in the
\* word, and n's bit is clear once it has returned.
C1_PopReturnsOwnBit ==
  last.op = "pop_signal" =>
    /\ last.ret <=> last.was
    /\ ~test_signal(sig_flags_, last.sig)

\* C2: alive_threads() <= total_threads() in every reachable state of the
\* registry, also while spawn_thread or join() is in progress.
C2_AliveLeTotal == ULeq(thread_counter_, total_threads)

\* C3: all_running() is true iff alive_threads() == total_threads() and
\* total_threads() > 0; when a registered thread has ended and another
\* registered thread is running, all_running() is false and any_running()
\* is true.
C3_AllRunningIff ==
  /\ all_running <=> (UEq(thread_counter_, total_threads) /\ total_threads > 0)
  /\ ( /\ \E i \in threads_ : wstate[i] = "exited"
       /\ \E j \in threads_ : wstate[j] = "running" )
     => (~all_running /\ any_running)

\* C4: at most one thread is past the test-and-set at any time (constructing,
\* owning a live object or destroying it), the flag is set exactly then, the
\* slot is only acquired when it is free, and a construction that fails
\* with the lifecycle error leaves the flag set and every thread where it was.
C4_SingleInstance ==
  /\ [](Cardinality({t \in Threads : pc[t] # "idle"}) <= 1)
  /\ [](instance_exists_ <=> \E t \in Threads : pc[t] # "idle")
  /\ [][\A t \in Threads :
          (pc[t] = "idle" /\ pc'[t] # "idle")
            => (~instance_exists_ /\ instance_exists_')]_vars
  /\ [][outcome'.err = "logic_error"
          => (instance_exists_ /\ instance_exists_' /\ pc' = pc)]_vars

\* A thread owns a live object and the other thread's construction has just
\* failed with the lifecycle error.
C4_Witness ==
  \E t \in Threads :
    /\ pc[t] = "live"
    /\ outcome.err = "logic_error"
    /\ outcome.t # t
    /\ instance_exists_

\* C5: no bit a delivery has set is cleared by pop_all_signals without being
\* in the mask a pop returned, deliveries being allowed at any point of the
\* call: between two calls every delivered signal no pop has reported yet
\* still has its bit set.
C5_PopAllLosesNothing ==
  qpc = "idle" => \A s \in unreported : test_signal(sig_flags_, s)

\* C6: a construction that fails with a system error leaves the caller's
\* signal mask and every disposition as they were when it started, and the
\* singleton slot free.
C6_AllOrNothing ==
  [][outcome'.err = "system_error" =>
       /\ mask'[outcome'.t] = mask0[outcome'.t]
       /\ disposition' = disp0[outcome'.t]
       /\ ~instance_exists_']_vars

\* C7 as stated: every construction with a list that names an illegal
\* signal number ends with the invalid-argument error and the slot free.
C7_IllegalListInvalidArgument ==
  (outcome.err # "none" /\ outcome.illegal)
     => (outcome.err = "invalid_argument" /\ ~instance_exists_)

\* C7 amended: a construction with a list that names an illegal signal
\* number, started while the singleton slot is free, ends with the
\* invalid-argument error before any mask or disposition is changed and
\* leaves the slot free; started while another instance holds the slot it
\* ends with the lifecycle error.  No legal list gets the invalid-argument
\* error.
C7_IllegalListWhenSlotFree ==
  /\ []((outcome.err # "none" /\ outcome.illegal)
          => outcome.err \in {"invalid_argument", "logic_error"})
  /\ [](outcome.err = "invalid_argument"
          => (outcome.illegal /\ ~instance_exists_))
  /\ [][\A t \in Threads :
          (pc[t] = "validate" /\ OutOfRange(signal_list[t])
             /\ pc'[t] # pc[t])
          => /\ outcome' = [t |-> t, err |-> "invalid_argument",
                            illegal |-> TRUE]
             /\ ~instance_exists_'
             /\ mask' = mask /\ disposition' = disposition
             /\ mask[t] = mask0[t] /\ disposition = disp0[t]]_vars
  /\ [][\A t \in Threads :
          (pc[t] = "validate" /\ ~OutOfRange(signal_list[t])
             /\ pc'[t] # pc[t])
          => pc'[t] = "block"]_vars

\* A construction with an illegal list has just failed with the
\* invalid-argument error and the slot is free.
C7_Witness ==
  /\ outcome.err = "invalid_argument"
  /\ outcome.illegal
  /\ ~instance_exists_
  /\ destroyed

\* C8: the teardown of a constructed object gives every registered signal
\* the disposition it had when the construction started, whatever the list.
C8_TeardownRestores ==
  [][\A t \in Threads :
       (pc[t] = "live" /\ pc'[t] = "request_stop")
         => \A s \in sigmask_[t] : disposition'[s] = disp0[t][s]]_vars

\* C9: the teardown ends with the slot free, a construction started with
\* the slot free does not fail with the lifecycle error, and from the end of
\* the constructor's stores on the words hold no bit other than those of
\* signals delivered after these stores.
C9_FreshInstance ==
  /\ [](\A t \in Threads : pc[t] \in {"start", "live"} =>
          \A w \in Words : \A b \in sig_flags_[w] :
            \E s \in raised : ExpWord(s) = w /\ ExpBit(s) = b)
  /\ [][\A t \in Threads :
          (pc[t] = "clear" /\ pc'[t] = "idle") => ~instance_exists_']_vars
  /\ [][~instance_exists_ => outcome'.err # "logic_error"]_vars

\* After a teardown a construction has just succeeded and the words are zero.
C9_Witness ==
  /\ destroyed
  /\ outcome.err = "ok"
  /\ pc[outcome.t] = "live"
  /\ sig_flags_ = ZeroFlags

\* C10: the handler, test_signal and pop_signal place a legal signal k on
\* one bit of one word, bit k-1 of the OS word for k in 1..31 and bit k-32
\* of the RT word for k in 32..63, no two legal numbers share a place, and
\* a number <= 0 or >= NSIG sets no bit, is reported false and changes no
\* word.
C10_BitPlacement ==
  /\ \A k \in SigRange :
       IF Legal(k)
       THEN /\ signal_bitmask(k) = {ExpBit(k)}
            /\ handler_word(k) = ExpWord(k)
            /\ flagenm(k) = ExpWord(k)
            /\ \A j \in SigRange :
                 (Legal(j) /\ j # k) =>
                    <<handler_word(j), signal_bitmask(j)>> #
                    <<handler_word(k), signal_bitmask(k)>>
       ELSE signal_bitmask(k) = {}
  /\ [](\A k \in SigRange :
          IF Legal(k)
          THEN /\ handler_callback(sig_flags_, k) =
                    [sig_flags_ EXCEPT ![ExpWord(k)] = @ \cup {ExpBit(k)}]
               /\ test_signal(sig_flags_, k) <=>
                    ExpBit(k) \in sig_flags_[ExpWord(k)]
               /\ pop_signal_flags(sig_flags_, k) =
                    [sig_flags_ EXCEPT ![ExpWord(k)] = @ \ {ExpBit(k)}]
          ELSE /\ handler_callback(sig_flags_, k) = sig_flags_
               /\ ~test_signal(sig_flags_, k)
               /\ ~pop_signal_ret(sig_flags_, k)
               /\ pop_signal_flags(sig_flags_, k) = sig_flags_)
  /\ [][\A s \in LegalSigs :
          (s \notin raised /\ s \in raised') =>
             sig_flags_' =
               [sig_flags_ EXCEPT ![ExpWord(s)] = @ \cup {ExpBit(s)}]]_vars
  /\ [][last'.op = "pop_signal" =>
          IF Legal(last'.sig)
          THEN sig_flags_' = [sig_flags_ EXCEPT ![ExpWord(last'.sig)] =
                                                   @ \ {ExpBit(last'.sig)}]
          ELSE sig_flags_' = sig_flags_ /\ ~last'.ret]_vars
  /\ [][last'.op = "test_signal" =>
          /\ sig_flags_' = sig_flags_
          /\ last'.ret <=> /\ Legal(last'.sig)
                           /\ ExpBit(last'.sig) \in
                                sig_flags_[ExpWord(last'.sig)]]_vars

\* SIGINT, SIGQUIT and SIGRTMIN have been delivered and a test_signal of
\* the number NSIG has just returned false.
C10_Witness ==
  /\ sig_flags_ = [w \in Words |->
                     IF w = "OS_sigs" THEN {1, 2}
                     ELSE IF w = "RT_sigs" THEN {2} ELSE {}]
  /\ last.op = "test_signal"
  /\ last.sig = NSIG
  /\ ~last.ret

\* The threads whose wrapper has not yet made its fetch_sub.
AliveBodies == {i \in Tids : wstate[i] \in {"running", "returned"}}

\* No spawn_thread call is between its fetch_add and its return.
NoSpawnInProgress == \A c \in Callers : cpc[c] \in {"idle", "j_wait"}

\* C11: once a failed spawn_thread has propagated, with no other spawn_thread
\* in progress, the registry is as if the call had not happened: the thread of
\* the failed call is not registered and alive_threads() is the number of
\* threads whose wrapper has not ended, as it was before the call.
C11_FailedSpawnLeavesNoTrace ==
  (tmlast.op = "spawn_thread" /\ tmlast.err = "rethrown"
     /\ NoSpawnInProgress /\ orphans \subseteq {tmlast.id})
  => /\ tmlast.id \notin threads_
     /\ thread_counter_ = Cardinality(AliveBodies)

\* The positions at which a caller holds threads_mtx_.
HoldsLock(c) ==
  cpc[c] \in {"s_create", "s_insert", "s_unwind", "s_catch", "j_wait"}

\* C12: request_stop(id) and stop_requested(id) end with the lookup error
\* exactly when id is not registered at the call, the failing call changes
\* nothing of the registry, a call that does not fail acts on a record that
\* is registered before and after it, and the call runs while no
\* spawn_thread or join() holds the registry lock.
C12_LookupError ==
  [][tmlast'.op \in {"request_stop", "stop_requested"} =>
       /\ tmlast'.err \in {"none", "invalid_argument"}
       /\ (tmlast'.err = "invalid_argument") <=> (tmlast'.id \notin threads_)
       /\ threads_mtx_ = "free" /\ threads_mtx_' = "free"
       /\ \A c \in Callers : ~HoldsLock(c)
       /\ threads_' = threads_
       /\ tmlast'.err = "invalid_argument" =>
            /\ ~tmlast'.ret
            /\ UNCHANGED <<thread_counter_, global_stop_source_, local_stop,
                           wstate>>
       /\ tmlast'.err = "none" =>
            /\ tmlast'.id \in threads_ /\ tmlast'.id \in threads_'
            /\ \A j \in Tids \ {tmlast'.id} :
                 local_stop'[j] = local_stop[j]]_vars

\* request_stop has just failed on an identity that was registered and
\* then removed by join(), while another thread is registered.
C12_Witness ==
  /\ tmlast.op = "request_stop"
  /\ tmlast.err = "invalid_argument"
  /\ wstate[tmlast.id] = "exited"
  /\ tmlast.id \notin orphans
  /\ tmlast.id \notin threads_
  /\ threads_ # {}

\* C13: a newly registered identity has no local stop request; the local
\* flag of a registered identity changes only by a request_stop on that
\* identity, which returns true exactly when the flag was false, leaves the
\* flag true, and changes no other thread's flag and not the global flag;
\* the flag stays true while the identity is registered, and stop_requested
\* returns the flag.
C13_LocalStop ==
  /\ [][\A i \in threads_' \ threads_ : ~local_stop'[i]]_vars
  /\ [][\A i \in threads_ \cap threads_' :
          /\ local_stop[i] => local_stop'[i]
          /\ local_stop'[i] # local_stop[i] =>
               /\ tmlast'.op = "request_stop"
               /\ tmlast'.id = i
               /\ tmlast'.ret]_vars
  /\ [][(tmlast'.op = "request_stop" /\ tmlast'.err = "none") =>
          /\ tmlast'.ret <=> ~local_stop[tmlast'.id]
          /\ local_stop'[tmlast'.id]
          /\ \A j \in Tids \ {tmlast'.id} : local_stop'[j] = local_stop[j]
          /\ global_stop_source_' = global_stop_source_]_vars
  /\ [][(tmlast'.op = "stop_requested" /\ tmlast'.err = "none") =>
          /\ tmlast'.ret <=> local_stop[tmlast'.id]
          /\ local_stop' = local_stop]_vars

\* Two threads are registered, the local stop of both has been requested,
\* stop_requested has just returned true and stop_requested_all() is false.
C13_Witness ==
  /\ Cardinality(threads_) >= 2
  /\ \A i \in threads_ : local_stop[i]
  /\ tmlast.op = "stop_requested"
  /\ tmlast.err = "none"
  /\ tmlast.ret
  /\ ~stop_requested_all

\* C14: request_stop_all() returns true exactly when the global flag was
\* not yet set and leaves it set; the flag is set by nothing else and never
\* reset; while it is set stop_requested_all() is true and the global token
\* of every started thread reports the request; the call changes no local
\* stop flag.
C14_GlobalStop ==
  /\ [][global_stop_source_ => global_stop_source_']_vars
  /\ [][global_stop_source_' # global_stop_source_ =>
          tmlast'.op = "request_stop_all"]_vars
  /\ [][tmlast'.op = "request_stop_all" =>
          /\ tmlast'.ret <=> ~global_stop_source_
          /\ global_stop_source_'
          /\ local_stop' = local_stop]_vars
  /\ [](global_stop_source_ <=> stop_requested_all)
  /\ [](\A i \in Tids : wstate[i] # "unborn" =>
          (global_token(i) <=> global_stop_source_))

\* A second request_stop_all() has just returned false while a registered
\* thread is running with its local flag clear and the global token set.
C14_Witness ==
  /\ tmlast.op = "request_stop_all"
  /\ ~tmlast.ret
  /\ \E i \in threads_ :
       wstate[i] = "running" /\ ~local_stop[i] /\ global_token(i)

\* The threads that have been started.
Started == {i \in Tids : wstate[i] # "unborn"}

\* C15: with no spawn_thread in progress and no spawn_thread having failed
\* after its thread started, alive_threads() is the number of threads
\* whose wrapper has not ended; when moreover every started thread is
\* registered and still in its work body, total_threads() and
\* alive_threads() both equal the number of spawns; the end of a wrapper
\* lowers the counter by one and leaves the table; join() empties the table
\* and changes nothing else, leaving alive_threads() = 0 when no spawn is in
\* progress; on an empty registry join() changes nothing and
\* all_running()/any_running() are false.
C15_CountAccounting ==
  /\ []((NoSpawnInProgress /\ orphans = {}) =>
          UEq(thread_counter_, Cardinality(AliveBodies)))
  /\ []((NoSpawnInProgress /\ orphans = {} /\ threads_ = Started
           /\ \A i \in Started : wstate[i] = "running") =>
          /\ total_threads = Cardinality(Started)
          /\ UEq(thread_counter_, Cardinality(Started)))
  /\ [][\A i \in Tids :
          (wstate[i] = "returned" /\ wstate'[i] = "exited") =>
            /\ thread_counter_' = thread_counter_ - 1
            /\ threads_' = threads_]_vars
  /\ [][tmlast'.op = "join" =>
          /\ threads_' = {}
          /\ \A i \in threads_ : wstate[i] = "exited"
          /\ UNCHANGED <<thread_counter_, global_stop_source_, local_stop,
                         wstate>>
          /\ (NoSpawnInProgress' /\ orphans = {}) => thread_counter_' = 0]_vars
  /\ []((threads_ = {} /\ thread_counter_ = 0) =>
          (total_threads = 0 /\ ~all_running /\ ~any_running))

\* Two threads were spawned, both have ended, and a join() has just
\* returned with the table empty and the counter at zero.
C15_Witness ==
  /\ tmlast.op = "join"
  /\ Cardinality({i \in Tids : wstate[i] = "exited"}) >= 2
  /\ orphans = {}
  /\ NoSpawnInProgress
  /\ threads_ = {}
  /\ thread_counter_ = 0
  /\ ~any_running

\* join() of caller c waits on the registered thread i, whose work body is
\* in the spawn_thread call of d, which waits for the lock c holds.
StuckAt(c, d, i) ==
  /\ cpc[c] = "j_wait"
  /\ cpc[d] = "s_lock"
  /\ inside[d] = i
  /\ i \in threads_

\* C16: join() holds the registry lock from its start to its return; while
\* it is draining no thread is created and none is registered; the entries
\* it removes are those of ended threads, so a thread started by a
\* spawn_thread that waited for the lock is registered after the join and not
\* removed by it; and when the waiting spawn_thread was called by the work
\* body of a thread the join() waits on, both calls stay where they are for
\* ever.
C16_JoinHoldsLock ==
  /\ [](\A c \in Callers : cpc[c] = "j_wait" => threads_mtx_ = c)
  /\ [][(\E c \in Callers : cpc[c] = "j_wait") =>
          /\ \A i \in Tids : wstate[i] = "unborn" => wstate'[i] = "unborn"
          /\ threads_' \subseteq threads_
          /\ \A d \in Callers :
               cpc[d] = "s_lock" => cpc'[d] = "s_lock"]_vars
  /\ [][tmlast'.op = "join" =>
          /\ \A i \in threads_ : wstate[i] = "exited"
          /\ threads_' = {}
          /\ threads_mtx_' = "free"
          /\ \A d \in Callers : cpc[d] \in {"s_lock", "idle", "j_wait"}]_vars
  /\ [][\A c, d \in Callers : \A i \in Tids :
          StuckAt(c, d, i) => StuckAt(c, d, i)']_vars

\* join() waits on a registered thread whose work body is blocked in
\* spawn_thread, after its fetch_add, on the lock join() holds.
C16_Witness ==
  \E c, d \in Callers : \E i \in Tids :
    /\ StuckAt(c, d, i)
    /\ threads_mtx_ = c
    /\ wstate[i] = "running"

\* C17: once the installation loop of a lenient construction has ended,
\* every listed signal whose sigaction succeeded has the handler, and a
\* listed signal whose sigaction failed keeps its disposition and has no
\* entry in old_handlers_.
C17_LenientSkips ==
  \A t \in Threads :
    (pc[t] \in {"zero", "start", "live"} /\ ~throw_sig_error[t]) =>
      \A s \in ListSet(signal_list[t]) :
        IF SigactionFails(s)
        THEN /\ disposition[s] = disp0[t][s]
             /\ old_handlers_[t][s] = "none"
        ELSE disposition[s] = "handler_callback"

\* C18: the bit of a legal signal n is set only by the handler run for a
\* delivery of n, which changes nothing else of the words, and is cleared
\* only by pop_signal(n), by a store of pop_all_signals or by the stores
\* of the teardown; no construction step and no other operation clears it.
C18_OnlyHandlerSetsOnlyPopsClear ==
  [][\A s \in LegalSigs :
       /\ (~test_signal(sig_flags_, s) /\ test_signal(sig_flags_', s)) =>
            /\ disposition[s] = "handler_callback"
            /\ sig_flags_' = handler_callback(sig_flags_, s)
       /\ (test_signal(sig_flags_, s) /\ ~test_signal(sig_flags_', s)) =>
            \/ last'.op = "pop_signal" /\ last'.sig = s
            \/ qpc \in {<<"pop_all", "store", w>> : w \in Words}
            \/ \E t \in Threads : pc[t] = "dtor_zero"]_vars

\* Every thread other than the owner t has the registered signals blocked,
\* as a thread created after the construction inherits them.
Inherit(t) ==
  \A u \in Threads \ {t} : (sigmask_[t] \ Uncatchable) \subseteq mask[u]

\* C19: while an object is live and every other thread has the registered
\* set blocked, the only thread on which the handler of a registered signal
\* can run is the object's dispatcher, and it can once the dispatcher has
\* unblocked the set; a registered signal sent to the process while the
\* object is live is eventually recorded as its bit, unless the teardown
\* starts first.
C19_OnlyDispatcher ==
  /\ [](\A s \in LegalSigs : Unblocked(s) <=> RunsOn(s) # {})
  /\ [](\A t \in Threads :
          (pc[t] = "live" /\ Inherit(t)) =>
            \A s \in sigmask_[t] \ Uncatchable :
              /\ disposition[s] = "handler_callback"
              /\ RunsOn(s) \subseteq {<<"dispatcher", t>>}
              /\ dpc[t] \in {"lock", "check", "wait"} =>
                   RunsOn(s) = {<<"dispatcher", t>>})
  /\ \A t \in Threads : \A s \in LegalSigs \ Uncatchable :
       (pc[t] = "live" /\ s \in sigmask_[t])
         ~> (test_signal(sig_flags_, s) \/ pc[t] # "live")

\* An object is live, the other thread has its signal blocked, the
\* dispatcher sleeps with the set unblocked, and a delivery has been recorded.
C19_Witness ==
  \E t \in Threads : \E s \in LegalSigs :
    /\ pc[t] = "live"
    /\ Inherit(t)
    /\ s \in sigmask_[t]
    /\ dpc[t] = "wait"
    /\ RunsOn(s) = {<<"dispatcher", t>>}
    /\ test_signal(sig_flags_, s)

\* C20: a teardown that has restored the dispositions always reaches its
\* end, wherever the dispatcher is when the stop is requested; the
\* dispatcher ends only after the stop request, the join returns only after
\* the dispatcher has ended, a dispatcher that sleeps after the notify has
\* been notified, and the destructor then stores zero into the words and
\* releases the slot.
C20_TeardownTerminates ==
  /\ \A t \in Threads : (pc[t] = "request_stop") ~> (pc[t] = "idle")
  /\ [](\A t \in Threads : dpc[t] = "done" => stop_[t])
  /\ [](\A t \in Threads :
          (pc[t] = "join" /\ dpc[t] = "wait") => (stop_[t] /\ woken[t]))
  /\ [][\A t \in Threads :
          (pc[t] = "join" /\ pc'[t] # "join") =>
             (dpc[t] = "done" /\ pc'[t] = "dtor_zero")]_vars
  /\ [][\A t \in Threads :
          (pc[t] = "dtor_zero" /\ pc'[t] # "dtor_zero") =>
             (sig_flags_' = ZeroFlags /\ pc'[t] = "clear")]_vars
  /\ [][\A t \in Threads :
          (pc[t] = "clear" /\ pc'[t] # "clear") =>
             (~instance_exists_' /\ pc'[t] = "idle")]_vars

\* The stop was requested and the notify made while the dispatcher was
\* asleep on the condition variable; the destructor waits in join.
C20_Witness ==
  \E t \in Threads :
    /\ pc[t] = "join"
    /\ dpc[t] = "wait"
    /\ stop_[t]
    /\ woken[t]

\* C21: an identity leaves the table only in the step that ends a join(),
\* and only when its wrapper has made its decrement and ended; a step that
\* sets a local flag or the global flag changes neither the table nor the
\* counter nor the state of any thread; request_stop, stop_requested and
\* request_stop_all change neither the table nor the counter.
C21_FinishedBeforeReaped ==
  /\ [][\A i \in threads_ \ threads_' :
          /\ tmlast'.op = "join"
          /\ wstate[i] = "exited"
          /\ wstate'[i] = "exited"]_vars
  /\ [][(\E i \in threads_ : local_stop'[i] # local_stop[i])
          \/ global_stop_source_' # global_stop_source_
        => UNCHANGED <<threads_, thread_counter_, wstate>>]_vars
  /\ [][tmlast'.op \in {"request_stop", "stop_requested", "request_stop_all"}
        => UNCHANGED <<threads_, thread_counter_, wstate>>]_vars
  /\ [][\A i \in Tids :
          (wstate[i] = "running" /\ wstate'[i] # "running") =>
             UNCHANGED <<threads_, thread_counter_, local_stop,
                         global_stop_source_>>]_vars

\* A registered thread whose local stop and the global stop were requested
\* is still running, registered and counted, and request_stop has just
\* returned.
C21_Witness ==
  /\ tmlast.op = "request_stop"
  /\ tmlast.err = "none"
  /\ global_stop_source_
  /\ wstate[tmlast.id] = "running"
  /\ tmlast.id \in threads_
  /\ local_stop[tmlast.id]
  /\ orphans = {}
  /\ NoSpawnInProgress
  /\ thread_counter_ = Cardinality(AliveBodies)

\* C22: a delivery is not lost to pop_signal: a delivery of n leaves n's bit
\* set; a pop_signal(n) that finds n's bit set returns true and clears it;
\* a pop_signal leaves the bit of every other delivered signal set; so a
\* signal delivered and not yet cleared always has its bit set outside
\* pop_all_signals.
C22_DeliveryNotLostToPop ==
  /\ [][\A s \in LegalSigs :
          (disposition[s] = "handler_callback"
             /\ sig_flags_' = handler_callback(sig_flags_, s)
             /\ raised' = raised \cup {s})
          => test_signal(sig_flags_', s)]_vars
  /\ [][last'.op = "pop_signal" =>
          /\ test_signal(sig_flags_, last'.sig) =>
               (last'.ret /\ ~test_signal(sig_flags_', last'.sig))
          /\ \A s \in LegalSigs \ {last'.sig} :
               test_signal(sig_flags_', s) <=> test_signal(sig_flags_, s)]_vars
  /\ [](qpc = "idle" => \A s \in raised : test_signal(sig_flags_, s))

\* pop_signal has just returned true for a delivered signal and cleared its
\* bit, while the bit of another delivered signal of the same word is set.
C22_Witness ==
  /\ last.op = "pop_signal"
  /\ last.ret
  /\ last.was
  /\ ~test_signal(sig_flags_, last.sig)
  /\ \E s \in raised :
       /\ handler_word(s) = handler_word(last.sig)
       /\ test_signal(sig_flags_, s)

\* C23: with cooperative workers and callers outside the registry that keep
\* making their request_stop(id) calls, every join() that has started
\* returns.
C23_JoinReturns ==
  \A c \in Callers : (cpc[c] = "j_wait") ~> (cpc[c] = "idle")

\* C24: the live-count never wraps below zero, and when no spawn_thread
\* call is in progress it equals the number of started threads whose
\* wrapper has not made its decrement, whatever the outcomes of the
\* spawn_thread calls were.
C24_NoUnderflow ==
  /\ ~(thread_counter_ < 0)
  /\ NoSpawnInProgress => UEq(thread_counter_, Cardinality(AliveBodies))

=============================================================================
